---- MODULE Spec2Model ----
(***************************************************************************)
(* Model of the k8s-template feature flag tools:                           *)
(*   feature-flag-manager.js       (single-project workflow, main)         *)
(*   bulk-feature-flag-manager.js  (bulk orchestrator, bulkMain)           *)
(* Text (answers, flag names, branch names, file contents) is a sequence   *)
(* of one-character strings, so trim / toLowerCase / includes / endsWith   *)
(* are computed as the JavaScript computes them.                           *)
(***************************************************************************)
EXTENDS Integers, Sequences, FiniteSets, TLC

\* ------------------------------------------------------------ bounds

\* Longest project list given to the bulk orchestrator.
MaxProjects == 3

\* Longest initial content of the values.yaml studied on its own.
MaxContentLen == 4

\* Most calls of addFeatureFlagToFile made in a row on that file.
MaxApplies == 2

\* ------------------------------------------------------------ text

S_empty == << >>
S_y == <<"y">>
S_n == <<"n">>
S_YES == <<"Y", "E", "S">>
S_yes == <<"y", "e", "s">>
S_ypad == <<" ", "y", "\n">>
S_prod == <<"p", "r", "o", "d">>
S_nonprod == <<"n", "o", "n", "-", "p", "r", "o", "d">>
S_qa == <<"q", "a">>
S_master == <<"m", "a", "s", "t", "e", "r">>
S_feature == <<"w", "i", "p">>
S_add == <<"a", "d", "d">>
S_remove == <<"r", "e", "m", "o", "v", "e">>
S_toggle == <<"t", "g", "l">>
S_FX == <<"F", "X">>
S_sa == <<"s", "a">>
S_sb == <<"s", "b">>
S_zz == <<"z", "z">>
S_origin == <<"o">>
S_ttranupgrade == <<"t">>

IsSpace(c) == c \in {" ", "\n", "\t", "\r"}

RECURSIVE TrimStart(_)
TrimStart(s) ==
  IF s # << >> /\ IsSpace(Head(s)) THEN TrimStart(Tail(s)) ELSE s

RECURSIVE TrimEnd(_)
TrimEnd(s) ==
  IF s # << >> /\ IsSpace(s[Len(s)]) THEN TrimEnd(SubSeq(s, 1, Len(s) - 1)) ELSE s

\* String.prototype.trim
Trim(s) == TrimEnd(TrimStart(s))

LowerChar(c) ==
  CASE c = "Y" -> "y"
    [] c = "E" -> "e"
    [] c = "S" -> "s"
    [] c = "N" -> "n"
    [] c = "F" -> "f"
    [] c = "X" -> "x"
    [] OTHER -> c

\* String.prototype.toLowerCase
ToLowerCase(s) == [k \in 1..Len(s) |-> LowerChar(s[k])]

\* String.prototype.includes
Includes(s, sub) ==
  \E k \in 0..(Len(s) - Len(sub)) : SubSeq(s, k + 1, k + Len(sub)) = sub

\* String.prototype.endsWith
EndsWith(s, suf) ==
  Len(suf) <= Len(s) /\ SubSeq(s, Len(s) - Len(suf) + 1, Len(s)) = suf

DigitChars == <<"0", "1", "2", "3", "4", "5", "6", "7", "8", "9">>

\* Number -> decimal text, as a template literal formats Date.now().
RECURSIVE NumberToString(_)
NumberToString(n) ==
  IF n < 10 THEN <<DigitChars[n + 1]>>
  ELSE NumberToString(n \div 10) \o <<DigitChars[(n % 10) + 1]>>

\* ------------------------------------------------------------ files

\* `# Feature flags for this environment\n`
HeaderLine ==
  <<"#", " ", "F", "e", "a", "t", "u", "r", "e", " ", "f", "l", "a", "g", "s", " ", "f", "o", "r", " ", "t", "h", "i", "s", " ", "e", "n", "v", "i", "r", "o", "n", "m", "e", "n", "t", "\n">>

\* `${featureFlagName}: true\n`
FlagLine(featureFlagName) ==
  featureFlagName \o <<":", " ", "t", "r", "u", "e", "\n">>

\* Mutant: the already-exists check left out.
AddFeatureFlagToFile_NoCheck(exists, content, featureFlagName) ==
  IF ~exists
    THEN [result |-> FALSE, written |-> FALSE, content |-> content]
  ELSE IF Trim(content) = << >> \/ ~Includes(content, <<":">>)
    THEN [result |-> TRUE, written |-> TRUE,
          content |-> HeaderLine \o FlagLine(featureFlagName)]
  ELSE [result |-> TRUE, written |-> TRUE,
        content |-> (IF EndsWith(content, <<"\n">>) THEN content
                     ELSE content \o <<"\n">>) \o FlagLine(featureFlagName)]

\* addFeatureFlagToFile(filePath, featureFlagName): the value returned and the
\* content the file holds afterwards (written says whether writeFileSync ran).
AddFeatureFlagToFile(exists, content, featureFlagName) ==
  IF ~exists
    THEN [result |-> FALSE, written |-> FALSE, content |-> content]
  ELSE IF Includes(content, featureFlagName \o <<":">>)
    THEN [result |-> FALSE, written |-> FALSE, content |-> content]
  ELSE IF Trim(content) = << >> \/ ~Includes(content, <<":">>)
    THEN [result |-> TRUE, written |-> TRUE,
          content |-> HeaderLine \o FlagLine(featureFlagName)]
  ELSE [result |-> TRUE, written |-> TRUE,
        content |-> (IF EndsWith(content, <<"\n">>) THEN content
                     ELSE content \o <<"\n">>) \o FlagLine(featureFlagName)]

\* Mutant: preprod left out of the non-prod environments.
EnvDirsFor_NoPreprod(envType) ==
  IF envType = S_prod THEN <<"prod">>
  ELSE <<"main", "ondemand", "stage">>

\* Step 5: the environment directories, in the order they are pushed.
EnvDirsFor(envType) ==
  IF envType = S_prod THEN <<"prod">>
  ELSE <<"main", "ondemand", "stage", "preprod">>

EnvNames == {"prod", "main", "ondemand", "stage", "preprod"}

\* v2/applications/<project> is the path <<project, "">>,
\* v2/applications/<project>/<env> is <<project, env>>.
ProjectPath(projectName) == <<projectName, "">>
EnvDir(projectName, env) == <<projectName, env>>

\* `add-${featureFlagName}-${projectName}-${envType}-${Date.now()}`
BranchName(featureFlagName, projectName, envType, now) ==
  S_add \o <<"-">> \o featureFlagName \o <<"-">> \o projectName \o <<"-">>
        \o envType \o <<"-">> \o NumberToString(now)

\* ------------------------------------------------------------ state

VARIABLES
  \* the k8s-template checkout on disk, shared by every run
  branch,          \* checked-out branch
  changes,         \* uncommitted changes in the working tree
  stash,           \* git stash stack, top first
  dirs,            \* directories that exist under v2/applications
  files,           \* path of an environment directory -> content of its values.yaml
  remotes,         \* output of `git remote`
  now,             \* Date.now()
  \* the feature-flag-manager.js process
  pc,              \* position in main()
  exitCode,        \* -1 while the process runs
  tty,             \* stdin is a terminal (TRUE) or a pipe holding `stdin`
  stdin,           \* lines not yet read from a piped stdin
  originalBranch,
  stashCreated,
  featureFlagName,
  projectName,
  envType,
  envDirs,
  envIdx,          \* position of the `for (const env of envDirs)` loop
  filesUpdated,
  branchName,
  pushRemote,
  \* what the process found and did (observation only)
  startBranch,
  startChanges,
  startStash,
  ran,             \* commands that completed in this process ("try ..": were started)
  restores,        \* times the restore code (Step 10 or the catch block) was entered
  attempted,       \* environments whose values.yaml addFeatureFlagToFile was called on
  writes,          \* each writeFileSync: the environment and the branch checked out then
  mkdirs,          \* each mkdirSync: the environment and the branch checked out then
  \* the bulk-feature-flag-manager.js process
  bpc,             \* position in bulkMain()
  args,            \* process.argv.slice(2)
  i,               \* loop index (1-based)
  procs,           \* project index -> state of the subprocess spawned for it
  spawned,         \* project indexes in the order their subprocess was spawned
  promise,         \* state of the awaited promise of the current iteration
  console,         \* lines bulkMain logged about projects and the summary
  bulkExitCode,
  \* one values.yaml and the calls of addFeatureFlagToFile made on it
  fileExists,      \* fs.existsSync(filePath)
  fileContent,     \* the content of the file
  flagName,        \* the featureFlagName argument of the calls
  applied          \* per call: the content before, the content after, the value returned

gitVars == <<branch, changes, stash>>
fsVars == <<dirs, files>>
envVars == <<remotes, now>>
ioVars == <<tty, stdin>>
localVars ==
  <<originalBranch, stashCreated, featureFlagName, projectName, envType,
    envDirs, envIdx, filesUpdated, branchName, pushRemote>>
startVars == <<startBranch, startChanges, startStash>>
fsObs == <<attempted, writes, mkdirs>>
obsVars == <<ran, restores, fsObs>>
procVars == <<pc, exitCode>>
bulkVars == <<bpc, args, i, procs, spawned, promise, console, bulkExitCode>>
fileVars == <<fileExists, fileContent, flagName, applied>>

vars ==
  <<gitVars, fsVars, envVars, ioVars, localVars, startVars, obsVars, procVars,
    bulkVars, fileVars>>

\* ------------------------------------------------------------ initial checkouts

C_kv == <<"k", ":", " ", "v">>
C_kvnl == <<"k", ":", " ", "v", "\n">>
C_comment == <<"#", " ", "c", "\n">>

EnvState(d, f, c) == [dir |-> d, file |-> f, content |-> c]

\* Every values.yaml holds other keys only.
LayoutFresh == [e \in EnvNames |-> EnvState(TRUE, TRUE, C_kv)]
\* Every values.yaml already declares FX.
LayoutFlagged == [e \in EnvNames |-> EnvState(TRUE, TRUE, FlagLine(S_FX))]
\* No environment directory exists yet.
LayoutBare == [e \in EnvNames |-> EnvState(FALSE, FALSE, << >>)]
LayoutMixed ==
  [e \in EnvNames |->
     CASE e = "prod" -> EnvState(TRUE, TRUE, C_comment)
       [] e = "main" -> EnvState(FALSE, FALSE, << >>)
       [] e = "ondemand" -> EnvState(TRUE, FALSE, << >>)
       [] e = "stage" -> EnvState(TRUE, TRUE, << >>)
       [] OTHER -> EnvState(TRUE, TRUE, C_kvnl \o FlagLine(S_FX))]

Layouts == {LayoutFresh, LayoutFlagged, LayoutBare, LayoutMixed}

LayoutDirs(projects, layout) ==
  {ProjectPath(p) : p \in projects}
    \cup {q \in {EnvDir(p, e) : p \in projects, e \in EnvNames} : layout[q[2]].dir}

LayoutFiles(projects, layout) ==
  [q \in {r \in {EnvDir(p, e) : p \in projects, e \in EnvNames} : layout[r[2]].file}
     |-> layout[q[2]].content]

\* A process that has not been started.
ProcessIdle ==
  /\ pc = "none"
  /\ exitCode = -1
  /\ tty = TRUE
  /\ stdin = << >>
  /\ originalBranch = << >>
  /\ stashCreated = FALSE
  /\ featureFlagName = << >>
  /\ projectName = << >>
  /\ envType = << >>
  /\ envDirs = << >>
  /\ envIdx = 1
  /\ filesUpdated = 0
  /\ branchName = << >>
  /\ pushRemote = S_origin
  /\ startBranch = << >>
  /\ startChanges = {}
  /\ startStash = << >>
  /\ ran = {}
  /\ restores = 0
  /\ attempted = {}
  /\ writes = {}
  /\ mkdirs = {}

BulkIdle ==
  /\ bpc = "none"
  /\ args = << >>
  /\ i = 1
  /\ procs = << >>
  /\ spawned = << >>
  /\ promise = "none"
  /\ console = << >>
  /\ bulkExitCode = -1

\* No single file is under study.
FileIdle ==
  /\ fileExists = FALSE
  /\ fileContent = << >>
  /\ flagName = << >>
  /\ applied = << >>

\* The checkout as a run may find it.
InitCheckout(projectSets, layouts, remoteSets) ==
  /\ branch \in {S_master, S_feature}
  /\ changes \in {{}, {"wip"}}
  /\ stash = << >>
  /\ remotes \in remoteSets
  /\ now = 1
  /\ \E projects \in projectSets, layout \in layouts :
       /\ dirs = LayoutDirs(projects, layout)
       /\ files = LayoutFiles(projects, layout)

\* ------------------------------------------------------------ feature-flag-manager.js

\* process.exit(code): the process ends there; no catch or finally block runs.
ProcessExit(code) == pc' = "exited" /\ exitCode' = code

\* Mutant: a failing command is ignored and the caller goes on.
ExecuteCommand_Continue(ok, next) == pc' = next /\ exitCode' = exitCode

\* Mutant: a failing command ends the process with code 0.
ExecuteCommand_ExitZero(ok, next) ==
  IF ok THEN pc' = next /\ exitCode' = exitCode ELSE ProcessExit(0)

\* executeCommand(command): the command's result, or process.exit(1) when
\* execSync throws.
ExecuteCommand(ok, next) ==
  IF ok THEN pc' = next /\ exitCode' = exitCode ELSE ProcessExit(1)

Goto(next) == pc' = next /\ exitCode' = exitCode

\* What an operator at a terminal may type at each prompt.
FlagAnswers == {S_empty, S_FX}
ProjectAnswers == {S_empty, S_sa, S_zz}
YesNoAnswers == {S_y, S_YES, S_ypad, S_n, S_empty}
EnvAnswers == {S_prod, S_nonprod, S_qa}

\* The lines rl.question can deliver: typed at the terminal, or the next line
\* of a piped stdin.
Lines(typed) ==
  IF tty THEN typed ELSE IF stdin = << >> THEN {} ELSE {Head(stdin)}

\* askQuestion(question): consumes one line; the answer is the line trimmed.
AskQuestion(line, answer) ==
  /\ answer = Trim(line)
  /\ tty' = tty
  /\ stdin' = IF tty THEN stdin ELSE Tail(stdin)

IsYes(answer) == ToLowerCase(answer) = S_y \/ ToLowerCase(answer) = S_yes

\* main(): DEV_ROOT set, the k8s-template directory exists, chdir.
MainStart ==
  /\ pc = "start"
  /\ \E ok \in BOOLEAN : IF ok THEN Goto("getCurrentBranch") ELSE ProcessExit(1)
  /\ UNCHANGED <<gitVars, fsVars, envVars, ioVars, localVars, startVars, obsVars, bulkVars>>
  /\ UNCHANGED fileVars

\* originalBranch = getCurrentBranch()
GetCurrentBranch ==
  /\ pc = "getCurrentBranch"
  /\ \E ok \in BOOLEAN :
       /\ ExecuteCommand(ok, "hasUncommittedChanges")
       /\ originalBranch' = IF ok THEN branch ELSE originalBranch
       /\ ran' = IF ok THEN ran \cup {"rev-parse"} ELSE ran
  /\ UNCHANGED <<gitVars, fsVars, envVars, ioVars, startVars, restores, fsObs, bulkVars>>
  /\ UNCHANGED <<stashCreated, featureFlagName, projectName, envType, envDirs,
                 envIdx, filesUpdated, branchName, pushRemote>>
  /\ UNCHANGED fileVars

\* if (hasUncommittedChanges())
HasUncommittedChanges ==
  /\ pc = "hasUncommittedChanges"
  /\ \E ok \in BOOLEAN :
       /\ ExecuteCommand(ok, IF changes # {} THEN "stashPush" ELSE "askFlag")
       /\ ran' = IF ok THEN ran \cup {"status"} ELSE ran
  /\ UNCHANGED <<gitVars, fsVars, envVars, ioVars, localVars, startVars, restores, fsObs,
                 bulkVars>>
  /\ UNCHANGED fileVars

\* git stash push; stashCreated = true
StashPush ==
  /\ pc = "stashPush"
  /\ \E ok \in BOOLEAN :
       /\ ExecuteCommand(ok, "askFlag")
       /\ IF ok
            THEN /\ stash' = <<changes>> \o stash
                 /\ changes' = {}
                 /\ stashCreated' = TRUE
                 /\ ran' = ran \cup {"stash push"}
            ELSE UNCHANGED <<stash, changes, stashCreated, ran>>
  /\ UNCHANGED <<branch, fsVars, envVars, ioVars, startVars, restores, fsObs, bulkVars>>
  /\ UNCHANGED <<originalBranch, featureFlagName, projectName, envType, envDirs,
                 envIdx, filesUpdated, branchName, pushRemote>>
  /\ UNCHANGED fileVars

\* Step 1: the feature flag name
AskFeatureFlagName ==
  /\ pc = "askFlag"
  /\ \E line \in Lines(FlagAnswers) : \E answer \in {Trim(line)} :
       /\ AskQuestion(line, answer)
       /\ featureFlagName' = answer
       /\ IF answer = << >> THEN ProcessExit(1) ELSE Goto("askProject")
  /\ UNCHANGED <<gitVars, fsVars, envVars, startVars, obsVars, bulkVars>>
  /\ UNCHANGED <<originalBranch, stashCreated, projectName, envType, envDirs,
                 envIdx, filesUpdated, branchName, pushRemote>>
  /\ UNCHANGED fileVars

\* Step 2: the project name, and whether its directory exists
AskProjectName ==
  /\ pc = "askProject"
  /\ \E line \in Lines(ProjectAnswers) : \E answer \in {Trim(line)} :
       /\ AskQuestion(line, answer)
       /\ projectName' = answer
       /\ IF answer = << >> THEN ProcessExit(1)
          ELSE IF ProjectPath(answer) \in dirs THEN Goto("askEnv")
          ELSE Goto("askContinue")
  /\ UNCHANGED <<gitVars, fsVars, envVars, startVars, obsVars, bulkVars>>
  /\ UNCHANGED <<originalBranch, stashCreated, featureFlagName, envType, envDirs,
                 envIdx, filesUpdated, branchName, pushRemote>>
  /\ UNCHANGED fileVars

\* 'Would you like to continue anyway? (y/n) '
AskContinueAnyway ==
  /\ pc = "askContinue"
  /\ \E line \in Lines(YesNoAnswers) : \E create \in {Trim(line)} :
       /\ AskQuestion(line, create)
       /\ IF IsYes(create) THEN Goto("askEnv") ELSE ProcessExit(0)
  /\ UNCHANGED <<gitVars, fsVars, envVars, localVars, startVars, obsVars, bulkVars>>
  /\ UNCHANGED fileVars

\* Step 3: one turn of the while (true) loop asking for the environment type
AskEnvType ==
  /\ pc = "askEnv"
  /\ \E line \in Lines(EnvAnswers) : \E answer \in {Trim(line)} :
       /\ AskQuestion(line, answer)
       /\ envType' = answer
       /\ IF answer = S_prod \/ answer = S_nonprod
            THEN Goto("askConfirm") ELSE Goto("askEnv")
  /\ UNCHANGED <<gitVars, fsVars, envVars, startVars, obsVars, bulkVars>>
  /\ UNCHANGED <<originalBranch, stashCreated, featureFlagName, projectName, envDirs,
                 envIdx, filesUpdated, branchName, pushRemote>>
  /\ UNCHANGED fileVars

\* 'Proceed with these settings? (y/n) '
AskConfirm ==
  /\ pc = "askConfirm"
  /\ \E line \in Lines(YesNoAnswers) : \E confirm \in {Trim(line)} :
       /\ AskQuestion(line, confirm)
       /\ IF IsYes(confirm) THEN Goto("fetch") ELSE ProcessExit(0)
       /\ ran' = IF IsYes(confirm) THEN ran \cup {"confirm"} ELSE ran
  /\ UNCHANGED <<gitVars, fsVars, envVars, localVars, startVars, restores, fsObs,
                 bulkVars>>
  /\ UNCHANGED fileVars

\* Step 4: git fetch origin
GitFetch ==
  /\ pc = "fetch"
  /\ \E ok \in BOOLEAN :
       /\ ExecuteCommand(ok, "checkoutMaster")
       /\ ran' = IF ok THEN ran \cup {"fetch"} ELSE ran
  /\ UNCHANGED <<gitVars, fsVars, envVars, ioVars, localVars, startVars, restores,
                 fsObs, bulkVars>>
  /\ UNCHANGED fileVars

\* Step 4: git checkout master
GitCheckoutMaster ==
  /\ pc = "checkoutMaster"
  /\ \E ok \in BOOLEAN :
       /\ ExecuteCommand(ok, "pull")
       /\ branch' = IF ok THEN S_master ELSE branch
       /\ ran' = IF ok THEN ran \cup {"checkout master"} ELSE ran
  /\ UNCHANGED <<changes, stash, fsVars, envVars, ioVars, localVars, startVars,
                 restores, fsObs, bulkVars>>
  /\ UNCHANGED fileVars

\* Step 4: git pull origin master
GitPull ==
  /\ pc = "pull"
  /\ \E ok \in BOOLEAN :
       /\ ExecuteCommand(ok, "createBranch")
       /\ ran' = IF ok THEN ran \cup {"pull"} ELSE ran
  /\ UNCHANGED <<gitVars, fsVars, envVars, ioVars, localVars, startVars, restores,
                 fsObs, bulkVars>>
  /\ UNCHANGED fileVars

\* Steps 5 and 6: envDirs, branchName, git checkout -b branchName
CreateBranch ==
  /\ pc = "createBranch"
  /\ envDirs' = EnvDirsFor(envType)
  /\ branchName' = BranchName(featureFlagName, projectName, envType, now)
  /\ now' = now + 1
  /\ \E ok \in BOOLEAN :
       /\ ExecuteCommand(ok, "update")
       /\ branch' = IF ok THEN branchName' ELSE branch
       /\ ran' = IF ok THEN ran \cup {"checkout -b"} ELSE ran
  /\ filesUpdated' = 0
  /\ envIdx' = 1
  /\ UNCHANGED <<changes, stash, fsVars, remotes, ioVars, startVars, restores,
                 fsObs, bulkVars>>
  /\ UNCHANGED <<originalBranch, stashCreated, featureFlagName, projectName, envType,
                 pushRemote>>
  /\ UNCHANGED fileVars

\* Step 7, one turn of the loop: mkdirSync when the directory is missing, then
\* addFeatureFlagToFile(valuesFile, featureFlagName).
UpdateEnvFile ==
  /\ pc = "update"
  /\ envIdx <= Len(envDirs)
  /\ LET envDir == EnvDir(projectName, envDirs[envIdx])
         exists == envDir \in DOMAIN files
         r == AddFeatureFlagToFile(exists, IF exists THEN files[envDir] ELSE << >>,
                                   featureFlagName)
     IN /\ dirs' = dirs \cup {ProjectPath(projectName), envDir}
        /\ files' = IF r.written THEN [files EXCEPT ![envDir] = r.content] ELSE files
        /\ changes' = IF r.written THEN changes \cup {"flag"} ELSE changes
        /\ filesUpdated' = IF r.result THEN filesUpdated + 1 ELSE filesUpdated
        /\ attempted' = attempted \cup {envDirs[envIdx]}
        /\ writes' = IF r.written
                       THEN writes \cup {[env |-> envDirs[envIdx], branch |-> branch]}
                       ELSE writes
        /\ mkdirs' = IF envDir \notin dirs
                       THEN mkdirs \cup {[env |-> envDirs[envIdx], branch |-> branch]}
                       ELSE mkdirs
  /\ envIdx' = envIdx + 1
  /\ Goto("update")
  /\ UNCHANGED <<branch, stash, envVars, ioVars, startVars, ran, restores, bulkVars>>
  /\ UNCHANGED <<originalBranch, stashCreated, featureFlagName, projectName, envType,
                 envDirs, branchName, pushRemote>>
  /\ UNCHANGED fileVars

\* Step 7: mkdirSync, readFileSync or writeFileSync throws; control passes to
\* the catch block of main().
UpdateEnvFileThrows ==
  /\ pc = "update"
  /\ envIdx <= Len(envDirs)
  /\ LET envDir == EnvDir(projectName, envDirs[envIdx])
     IN envDir \notin dirs \/ envDir \in DOMAIN files
  /\ Goto("catch")
  /\ UNCHANGED <<gitVars, fsVars, envVars, ioVars, localVars, startVars, obsVars, bulkVars>>
  /\ UNCHANGED fileVars

\* Mutant: the zero-files exit never taken.
NoFilesUpdated_Never(n) == n < 0

\* filesUpdated === 0
NoFilesUpdated(n) == n = 0

\* if (filesUpdated === 0) process.exit(1)
CheckFilesUpdated ==
  /\ pc = "update"
  /\ envIdx > Len(envDirs)
  /\ IF NoFilesUpdated(filesUpdated) THEN ProcessExit(1) ELSE Goto("gitAdd")
  /\ UNCHANGED <<gitVars, fsVars, envVars, ioVars, localVars, startVars, obsVars, bulkVars>>
  /\ UNCHANGED fileVars

\* Step 8: git add .
GitAdd ==
  /\ pc = "gitAdd"
  /\ \E ok \in BOOLEAN :
       /\ ExecuteCommand(ok, "commit")
       /\ ran' = IF ok THEN ran \cup {"add"} ELSE ran
  /\ UNCHANGED <<gitVars, fsVars, envVars, ioVars, localVars, startVars, restores,
                 fsObs, bulkVars>>
  /\ UNCHANGED fileVars

\* Step 8: git commit
GitCommit ==
  /\ pc = "commit"
  /\ \E ok \in BOOLEAN :
       /\ ExecuteCommand(ok, "remote")
       /\ changes' = IF ok THEN {} ELSE changes
       /\ ran' = IF ok THEN ran \cup {"commit"} ELSE ran
  /\ UNCHANGED <<branch, stash, fsVars, envVars, ioVars, localVars, startVars,
                 restores, fsObs, bulkVars>>
  /\ UNCHANGED fileVars

\* Step 9: git remote; prefer ttranupgrade
GitRemote ==
  /\ pc = "remote"
  /\ \E ok \in BOOLEAN :
       /\ ExecuteCommand(ok, "push")
       /\ pushRemote' = IF ok /\ S_ttranupgrade \in remotes THEN S_ttranupgrade
                        ELSE S_origin
  /\ UNCHANGED <<gitVars, fsVars, envVars, ioVars, startVars, obsVars, bulkVars>>
  /\ UNCHANGED <<originalBranch, stashCreated, featureFlagName, projectName, envType,
                 envDirs, envIdx, filesUpdated, branchName>>
  /\ UNCHANGED fileVars

\* Step 9: git push -u pushRemote branchName
GitPush ==
  /\ pc = "push"
  /\ \E ok \in BOOLEAN :
       /\ ExecuteCommand(ok, "prCreate")
       /\ ran' = IF ok THEN ran \cup {"push"} ELSE ran
  /\ UNCHANGED <<gitVars, fsVars, envVars, ioVars, localVars, startVars, restores,
                 fsObs, bulkVars>>
  /\ UNCHANGED fileVars

\* Step 9: gh pr create
GhPrCreate ==
  /\ pc = "prCreate"
  /\ \E ok \in BOOLEAN :
       /\ ExecuteCommand(ok, "restoreCheckout")
       /\ ran' = IF ok THEN ran \cup {"pr create"} ELSE ran
  /\ UNCHANGED <<gitVars, fsVars, envVars, ioVars, localVars, startVars, restores,
                 fsObs, bulkVars>>
  /\ UNCHANGED fileVars

\* if (originalBranch && originalBranch !== 'master')
ShouldCheckoutOriginal == originalBranch # << >> /\ originalBranch # S_master

\* git checkout originalBranch, guarded as Step 10 and the catch block guard it
CheckoutOriginal(next) ==
  IF ShouldCheckoutOriginal
    THEN \E ok \in BOOLEAN :
           /\ ExecuteCommand(ok, next)
           /\ branch' = IF ok THEN originalBranch ELSE branch
           /\ ran' = IF ok THEN ran \cup {"checkout original"} ELSE ran
    ELSE Goto(next) /\ UNCHANGED <<branch, ran>>

\* git stash pop, guarded by stashCreated
StashPop(next) ==
  IF stashCreated
    THEN \E ok \in BOOLEAN :
           /\ ExecuteCommand(ok /\ stash # << >>, next)
           /\ IF ok /\ stash # << >>
                THEN /\ changes' = changes \cup Head(stash)
                     /\ stash' = Tail(stash)
                     /\ ran' = ran \cup {"try stash pop", "stash pop"}
                ELSE /\ UNCHANGED <<changes, stash>>
                     /\ ran' = ran \cup {"try stash pop"}
    ELSE Goto(next) /\ UNCHANGED <<changes, stash, ran>>

\* Step 10: return to the original branch
RestoreCheckout ==
  /\ pc = "restoreCheckout"
  /\ CheckoutOriginal("restorePop")
  /\ restores' = restores + 1
  /\ UNCHANGED <<changes, stash, fsVars, envVars, ioVars, localVars, startVars,
                 fsObs, bulkVars>>
  /\ UNCHANGED fileVars

\* Step 10: restore the stash
RestoreStashPop ==
  /\ pc = "restorePop"
  /\ StashPop("return")
  /\ UNCHANGED <<branch, fsVars, envVars, ioVars, localVars, startVars, restores,
                 fsObs, bulkVars>>
  /\ UNCHANGED fileVars

\* main() returns, finally closes readline, the process ends with code 0.
MainReturn ==
  /\ pc = "return"
  /\ ProcessExit(0)
  /\ UNCHANGED <<gitVars, fsVars, envVars, ioVars, localVars, startVars, obsVars, bulkVars>>
  /\ UNCHANGED fileVars

\* catch (error): restore the original branch
CatchRestoreCheckout ==
  /\ pc = "catch"
  /\ CheckoutOriginal("catchPop")
  /\ restores' = restores + 1
  /\ UNCHANGED <<changes, stash, fsVars, envVars, ioVars, localVars, startVars,
                 fsObs, bulkVars>>
  /\ UNCHANGED fileVars

\* catch (error): restore the stash
CatchRestoreStashPop ==
  /\ pc = "catchPop"
  /\ StashPop("catchExit")
  /\ UNCHANGED <<branch, fsVars, envVars, ioVars, localVars, startVars, restores,
                 fsObs, bulkVars>>
  /\ UNCHANGED fileVars

\* catch (error): process.exit(1)
CatchExit ==
  /\ pc = "catchExit"
  /\ ProcessExit(1)
  /\ UNCHANGED <<gitVars, fsVars, envVars, ioVars, localVars, startVars, obsVars, bulkVars>>
  /\ UNCHANGED fileVars

\* One step of the feature-flag-manager.js process.
MainStep ==
  \/ MainStart
  \/ GetCurrentBranch
  \/ HasUncommittedChanges
  \/ StashPush
  \/ AskFeatureFlagName
  \/ AskProjectName
  \/ AskContinueAnyway
  \/ AskEnvType
  \/ AskConfirm
  \/ GitFetch
  \/ GitCheckoutMaster
  \/ GitPull
  \/ CreateBranch
  \/ UpdateEnvFile
  \/ UpdateEnvFileThrows
  \/ CheckFilesUpdated
  \/ GitAdd
  \/ GitCommit
  \/ GitRemote
  \/ GitPush
  \/ GhPrCreate
  \/ RestoreCheckout
  \/ RestoreStashPop
  \/ MainReturn
  \/ CatchRestoreCheckout
  \/ CatchRestoreStashPop
  \/ CatchExit

\* The process as node starts it on the checkout found.
ProcessStarted ==
  /\ pc = "start"
  /\ exitCode = -1
  /\ originalBranch = << >>
  /\ stashCreated = FALSE
  /\ featureFlagName = << >>
  /\ projectName = << >>
  /\ envType = << >>
  /\ envDirs = << >>
  /\ envIdx = 1
  /\ filesUpdated = 0
  /\ branchName = << >>
  /\ pushRemote = S_origin
  /\ startBranch = branch
  /\ startChanges = changes
  /\ startStash = stash
  /\ ran = {}
  /\ restores = 0
  /\ attempted = {}
  /\ writes = {}
  /\ mkdirs = {}

\* /feature-flag run from a terminal.
Init ==
  /\ InitCheckout({{S_sa}}, Layouts, {{S_origin}, {S_origin, S_ttranupgrade}})
  /\ ProcessStarted
  /\ tty = TRUE
  /\ stdin = << >>
  /\ BulkIdle
  /\ FileIdle

Next == MainStep

Spec == Init /\ [][Next]_vars

\* ------------------------------------------------------------ bulk-feature-flag-manager.js

\* const [operation, featureFlagName, envType, ...projects] = args
Arg(k) == IF k <= Len(args) THEN args[k] ELSE << >>
operation == Arg(1)
bulkFeatureFlagName == Arg(2)
bulkEnvType == Arg(3)
projects == SubSeq(args, 4, Len(args))

\* Mutant: 'remove' is refused.
ArgsValid_AddOnly ==
  /\ Len(args) # 0
  /\ ~(operation = << >> \/ bulkFeatureFlagName = << >> \/ bulkEnvType = << >>
        \/ Len(projects) = 0)
  /\ operation \in {S_add}
  /\ bulkEnvType \in {S_prod, S_nonprod}

\* The argument checks of bulkMain, in order; each failing one is process.exit(1).
ArgsValid ==
  /\ Len(args) # 0
  /\ ~(operation = << >> \/ bulkFeatureFlagName = << >> \/ bulkEnvType = << >>
        \/ Len(projects) = 0)
  /\ operation \in {S_add, S_remove}
  /\ bulkEnvType \in {S_prod, S_nonprod}

\* The lines written to the child's stdin, in order.
ChildInput(project) ==
  <<operation, bulkFeatureFlagName, project, bulkEnvType, S_y>>

\* Mutant: every close is logged as a success.
CloseIsSuccess_Always(code) == TRUE

\* child.on('close'): code === 0 is the success branch
CloseIsSuccess(code) == code = 0

\* Mutant: the promise is not awaited.
AwaitSettled_NoAwait(p) == TRUE

\* await new Promise(...): the loop body goes on once the promise is settled
AwaitSettled(p) == p \in {"resolved", "rejected"}

\* Mutant: a rejected promise leaves the loop.
AfterIteration_Break(idx, p) ==
  IF p = "rejected" THEN Len(projects) + 1 ELSE idx + 1

\* The index the for loop continues with after an iteration, whatever its promise.
AfterIteration(idx, p) == idx + 1

Log(entry) == console' = Append(console, entry)

\* bulkMain: argument validation
BulkValidate ==
  /\ bpc = "validate"
  /\ IF ArgsValid
       THEN bpc' = "loop" /\ bulkExitCode' = bulkExitCode
       ELSE bpc' = "exited" /\ bulkExitCode' = 1
  /\ UNCHANGED <<args, i, procs, spawned, promise, console>>
  /\ UNCHANGED <<gitVars, fsVars, envVars, ioVars, localVars, startVars, obsVars, procVars>>
  /\ UNCHANGED fileVars

\* One loop turn up to the await: spawn the child and write its stdin. The
\* child either starts on the checkout as it is now, or spawn emits 'error'.
BulkSpawn ==
  /\ bpc = "loop"
  /\ i <= Len(projects)
  /\ spawned' = Append(spawned, projects[i])
  /\ promise' = "pending"
  /\ bpc' = "await"
  /\ \E started \in BOOLEAN :
       IF started
         THEN /\ procs' = Append(procs, [state |-> "running", code |-> -1])
              /\ pc' = "start"
              /\ exitCode' = -1
              /\ tty' = FALSE
              /\ stdin' = ChildInput(projects[i])
              /\ originalBranch' = << >>
              /\ stashCreated' = FALSE
              /\ featureFlagName' = << >>
              /\ projectName' = << >>
              /\ envType' = << >>
              /\ envDirs' = << >>
              /\ envIdx' = 1
              /\ filesUpdated' = 0
              /\ branchName' = << >>
              /\ pushRemote' = S_origin
              /\ startBranch' = branch
              /\ startChanges' = changes
              /\ startStash' = stash
              /\ ran' = {}
              /\ restores' = 0
              /\ attempted' = {}
              /\ writes' = {}
              /\ mkdirs' = {}
         ELSE /\ procs' = Append(procs, [state |-> "error", code |-> -1])
              /\ UNCHANGED <<ioVars, localVars, startVars, obsVars, procVars>>
  /\ UNCHANGED <<args, i, console, bulkExitCode>>
  /\ UNCHANGED <<gitVars, fsVars, envVars>>
  /\ UNCHANGED fileVars

\* child.on('close', code): log, then resolve or reject
BulkOnClose ==
  /\ promise = "pending"
  /\ procs # << >>
  /\ procs[Len(procs)].state = "running"
  /\ pc = "exited"
  /\ procs' = [procs EXCEPT ![Len(procs)] = [state |-> "closed", code |-> exitCode]]
  /\ IF CloseIsSuccess(exitCode)
       THEN /\ Log([kind |-> "success", project |-> spawned[Len(procs)]])
            /\ promise' = "resolved"
       ELSE /\ Log([kind |-> "failed", project |-> spawned[Len(procs)]])
            /\ promise' = "rejected"
  /\ UNCHANGED <<bpc, args, i, spawned, bulkExitCode>>
  /\ UNCHANGED <<gitVars, fsVars, envVars, ioVars, localVars, startVars, obsVars, procVars>>
  /\ UNCHANGED fileVars

\* child.on('error', error): log, then reject
BulkOnError ==
  /\ promise = "pending"
  /\ procs # << >>
  /\ procs[Len(procs)].state = "error"
  /\ procs' = [procs EXCEPT ![Len(procs)] = [state |-> "failed", code |-> -1]]
  /\ Log([kind |-> "error", project |-> spawned[Len(procs)]])
  /\ promise' = "rejected"
  /\ UNCHANGED <<bpc, args, i, spawned, bulkExitCode>>
  /\ UNCHANGED <<gitVars, fsVars, envVars, ioVars, localVars, startVars, obsVars, procVars>>
  /\ UNCHANGED fileVars

\* After the await: the catch block when the promise was rejected, then i++.
BulkContinue ==
  /\ bpc = "await"
  /\ AwaitSettled(promise)
  /\ i' = AfterIteration(i, promise)
  /\ bpc' = "loop"
  /\ UNCHANGED <<args, procs, spawned, promise, console, bulkExitCode>>
  /\ UNCHANGED <<gitVars, fsVars, envVars, ioVars, localVars, startVars, obsVars, procVars>>
  /\ UNCHANGED fileVars

\* After the loop: 'Bulk operation completed!', `Processed ${projects.length} project(s)`;
\* bulkMain resolves and the process ends with code 0.
BulkSummary ==
  /\ bpc = "loop"
  /\ i > Len(projects)
  /\ Log([kind |-> "summary", processed |-> Len(projects)])
  /\ bpc' = "done"
  /\ bulkExitCode' = 0
  /\ UNCHANGED <<args, i, procs, spawned, promise>>
  /\ UNCHANGED <<gitVars, fsVars, envVars, ioVars, localVars, startVars, obsVars, procVars>>
  /\ UNCHANGED fileVars

BulkStep ==
  \/ BulkValidate
  \/ BulkSpawn
  \/ BulkOnClose
  \/ BulkOnError
  \/ BulkContinue
  \/ BulkSummary

\* Argument lists given to the bulk orchestrator.
BulkProjectNames == {S_sa, S_sb}

\* Project lists of 1..n names, alternating between the two names.
ProjectLists(n) ==
  {[k \in 1..m |-> IF (k + o) % 2 = 0 THEN S_sa ELSE S_sb] : m \in 1..n, o \in {0, 1}}

BulkArgs ==
  {<< >>, <<S_add>>, <<S_add, S_FX>>, <<S_add, S_FX, S_prod>>,
   <<S_toggle, S_FX, S_prod, S_sa>>, <<S_add, S_FX, S_qa, S_sa>>,
   <<S_add, S_empty, S_prod, S_sa>>}
    \cup {<<op, S_FX, env>> \o l :
            op \in {S_add, S_remove}, env \in {S_prod, S_nonprod},
            l \in ProjectLists(MaxProjects)}

\* node bulk-feature-flag-manager.js <args>
BulkInit ==
  /\ InitCheckout({{S_sa, S_sb}, {S_sa, S_sb, S_FX}}, {LayoutFresh, LayoutBare},
                  {{S_origin}})
  /\ ProcessIdle
  /\ bpc = "validate"
  /\ args \in BulkArgs
  /\ i = 1
  /\ procs = << >>
  /\ spawned = << >>
  /\ promise = "none"
  /\ console = << >>
  /\ bulkExitCode = -1
  /\ FileIdle

BulkNext == BulkStep \/ MainStep

BulkSpec == BulkInit /\ [][BulkNext]_vars

\* ------------------------------------------------------------ addFeatureFlagToFile on one file

ContentChars == {"X", "F", ":", "#", "\n"}

RECURSIVE Contents(_)
Contents(n) ==
  IF n = 0 THEN {<< >>}
  ELSE Contents(n - 1)
         \cup {Append(c, ch) : c \in {d \in Contents(n - 1) : Len(d) = n - 1},
                               ch \in ContentChars}

FileFlagNames == {<<"X">>, <<"F", "X">>}

\* A values.yaml, present with some content or missing, and a flag name.
FileInit ==
  /\ branch = S_master
  /\ changes = {}
  /\ stash = << >>
  /\ remotes = {S_origin}
  /\ now = 1
  /\ dirs = {}
  /\ files = << >>
  /\ ProcessIdle
  /\ BulkIdle
  /\ fileExists \in BOOLEAN
  /\ fileContent \in (IF fileExists THEN Contents(MaxContentLen) ELSE {<< >>})
  /\ flagName \in FileFlagNames
  /\ applied = << >>

\* addFeatureFlagToFile(filePath, flagName) called on the file
FileAdd ==
  /\ Len(applied) < MaxApplies
  /\ LET r == AddFeatureFlagToFile(fileExists, fileContent, flagName)
     IN /\ fileContent' = r.content
        /\ applied' = Append(applied, [existed |-> fileExists, before |-> fileContent,
                                       after |-> r.content, result |-> r.result])
  /\ UNCHANGED <<fileExists, flagName>>
  /\ UNCHANGED <<gitVars, fsVars, envVars, ioVars, localVars, startVars, obsVars, procVars,
                 bulkVars>>

FileNext == FileAdd

FileSpec == FileInit /\ [][FileNext]_vars

\* ------------------------------------------------------------ properties: single project

Exited == pc = "exited"

\* Capture has run: the branch was recorded, the status read and, when there
\* were uncommitted changes, the stash pushed.
Captured ==
  /\ "rev-parse" \in ran
  /\ "status" \in ran
  /\ (startChanges # {} => "stash push" \in ran)

\* The run ended at a failing step between the confirmation and the restore
\* code: fetch, checkout of master, pull, branch creation, the zero-files
\* exit, add, commit, remote, push or pull-request creation.
FatalStepFailed ==
  /\ Exited
  /\ exitCode = 1
  /\ Captured
  /\ featureFlagName # << >>
  /\ projectName # << >>
  /\ restores = 0

\* The changes stashed at capture are in the working tree again.
StashedChangesBack == stashCreated => (startChanges \subseteq changes /\ stash = startStash)

\* C1: when a step after capture fails, the process ends on the branch
\* recorded at capture with the stashed changes back in the working tree.
C1_RestoredAfterFailure ==
  FatalStepFailed => (branch = originalBranch /\ StashedChangesBack)

\* C2: after a run that created the pull request and ended with code 0, the
\* checkout is on the branch recorded at capture, whatever that branch
\* (master included), and the stash of capture has been popped.
C2_RestoredAfterSuccess ==
  (Exited /\ exitCode = 0 /\ "pr create" \in ran)
    => (branch = originalBranch /\ StashedChangesBack)

\* C3: every run that ends after capture has entered the restore code
\* exactly once.
C3_RestoreExactlyOnce ==
  (Exited /\ Captured) => restores = 1

\* C4: a run started on a branch that is no topic branch, with an empty
\* stash, never ends on the topic branch it created with the stash of
\* capture still unpopped.
C4_NotStrandedOnTopicBranch ==
  (Exited /\ startBranch \in {S_master, S_feature} /\ startStash = << >>)
    => ~(branchName # << >> /\ branch = branchName
         /\ stashCreated /\ "stash pop" \notin ran)

\* C5: a run in which no values.yaml was written has run no commit, no push
\* and no pull-request creation.
C5_NoCommitWithoutUpdate ==
  writes = {} => ran \cap {"commit", "push", "pr create"} = {}

\* The loop over envDirs has run to its end, every file untouched.
C5_Witness ==
  /\ Exited
  /\ envDirs # << >>
  /\ envIdx > Len(envDirs)
  /\ attempted # {}
  /\ writes = {}
  /\ exitCode = 1

\* C10: the environments whose values.yaml is passed to addFeatureFlagToFile
\* are among {prod} for 'prod' and among {main, ondemand, stage, preprod} for
\* 'non-prod', and are exactly that set once the loop has run to its end.
C10_EnvironmentMapping ==
  LET target == IF envType = S_prod THEN {"prod"}
                ELSE {"main", "ondemand", "stage", "preprod"}
  IN /\ attempted \subseteq target
     /\ (envDirs # << >> /\ envIdx > Len(envDirs)) => attempted = target

\* A non-prod run has passed all four files to addFeatureFlagToFile.
C10_Witness ==
  /\ envType = S_nonprod
  /\ envDirs # << >>
  /\ envIdx > Len(envDirs)
  /\ Cardinality(attempted) = 4
  /\ pc = "gitAdd"

\* ------------------------------------------------------------ properties: bulk

Running == {k \in 1..Len(procs) : procs[k].state = "running"}
ClosedWith(zero) ==
  {k \in 1..Len(procs) :
     procs[k].state = "closed" /\ ((procs[k].code = 0) <=> zero)}
Logged(kind) == {k \in 1..Len(console) : console[k].kind = kind}

\* C6: spawn is called for the projects in list order, once each, and
\* bulkMain reaches its end only after it was called for every project,
\* whatever the earlier subprocesses did.
C6_EveryProjectSpawned ==
  /\ Len(spawned) <= Len(projects)
  /\ spawned = SubSeq(projects, 1, Len(spawned))
  /\ Len(procs) = Len(spawned)
  /\ bpc = "done" => spawned = projects

\* The first project's subprocess failed, the second could not be spawned,
\* and the third was still run.
C6_Witness ==
  /\ bpc = "done"
  /\ Len(projects) = 3
  /\ procs[1].state = "closed" /\ procs[1].code = 1
  /\ procs[2].state = "failed"
  /\ procs[3].state = "closed"

\* C7: at most one subprocess is running, and a subprocess is spawned only
\* when every subprocess spawned before it has closed or failed to spawn.
C7_OneSubprocessAtATime ==
  /\ Cardinality(Running) <= 1
  /\ \A k \in 1..(Len(procs) - 1) : procs[k].state \in {"closed", "failed"}

\* The second subprocess is at work after the first has closed.
C7_Witness ==
  /\ Len(procs) = 2
  /\ procs[1].state = "closed"
  /\ procs[2].state = "running"
  /\ pc = "commit"

\* C8: what the subprocess takes as flag name, project and environment type
\* is the flag name, project and environment type bulkMain wrote for it.
C8_ScriptedAnswersKeepMeaning ==
  (bpc = "await" /\ Running # {})
    => /\ featureFlagName # << >> => featureFlagName = bulkFeatureFlagName
       /\ projectName # << >> => projectName = spawned[Len(spawned)]
       /\ pc \notin {"start", "getCurrentBranch", "hasUncommittedChanges", "stashPush",
                     "askFlag", "askProject", "askContinue", "askEnv"}
            => envType = bulkEnvType

C11_AddIdempotent ==
  Len(applied) >= 2
    => /\ applied[2].after = applied[1].after
       /\ applied[2].result = FALSE

\* Add has written the flag line, then was called again.
C11_Witness ==
  /\ Len(applied) = 2
  /\ applied[1].result = TRUE
  /\ applied[1].before = <<"F", ":", "X">>
  /\ fileContent = <<"F", ":", "X", "\n", "X", ":", " ", "t", "r", "u", "e", "\n">>

\* The lines of a content: the text between line feeds, a last line without
\* a line feed included.
RECURSIVE LinesOf(_)
LinesOf(content) ==
  IF content = << >> THEN << >>
  ELSE LET feeds == {k \in 1..Len(content) : content[k] = "\n"}
       IN IF feeds = {} THEN <<content>>
          ELSE LET k == CHOOSE j \in feeds : \A l \in feeds : j <= l
               IN <<SubSeq(content, 1, k - 1)>>
                    \o LinesOf(SubSeq(content, k + 1, Len(content)))

\* The line `flag: true` and the header comment, without their line feeds.
FlagLineText(flag) == SubSeq(FlagLine(flag), 1, Len(FlagLine(flag)) - 1)
HeaderLineText == SubSeq(HeaderLine, 1, Len(HeaderLine) - 1)

\* C12: Add on an existing file keeps every line the file had, in order: the
\* lines afterwards are the lines before followed by the flag line, with the
\* header comment before the flag line only when the file was blank.
C12_AddKeepsLines ==
  \A k \in 1..Len(applied) :
    applied[k].existed
      => IF ~applied[k].result THEN applied[k].after = applied[k].before
         ELSE IF Trim(applied[k].before) = << >>
           THEN LinesOf(applied[k].after) = <<HeaderLineText, FlagLineText(flagName)>>
         ELSE LinesOf(applied[k].after)
                = LinesOf(applied[k].before) \o <<FlagLineText(flagName)>>

\* Some line of the content declares the key: it starts with `flag:`.
DeclaresKey(content, flag) ==
  \E k \in 1..Len(LinesOf(content)) :
    LET line == TrimStart(LinesOf(content)[k])
    IN Len(line) > Len(flag) /\ SubSeq(line, 1, Len(flag) + 1) = flag \o <<":">>

\* C19: Add on an existing file is a skip exactly when a line declares the
\* key; when the name occurs only inside a longer key, a value or a comment,
\* Add returns true and the content ends with the flag line.
C19_SkipOnlyWhenKeyDeclared ==
  \A k \in 1..Len(applied) :
    applied[k].existed
      => /\ ~applied[k].result <=> DeclaresKey(applied[k].before, flagName)
         /\ ~DeclaresKey(applied[k].before, flagName)
              => EndsWith(applied[k].after, FlagLine(flagName))

\* ------------------------------------------------------------ properties: single project, continued

\* The Step 7 loop has run to its end.
LoopDone == envDirs # << >> /\ envIdx > Len(envDirs)

\* C13: after the loop every target file exists (a missing one was created
\* by Add), and each target whose directory had to be created, whose file
\* was therefore missing, is counted in filesUpdated.
C13_MissingFileCreated ==
  LoopDone
    => /\ \A e \in attempted : EnvDir(projectName, e) \in DOMAIN files
       /\ filesUpdated >= Cardinality(mkdirs)

\* The run ended at the empty flag name or the empty project name.
EndedOnMissingInput ==
  /\ Exited
  /\ Captured
  /\ exitCode = 1
  /\ featureFlagName = << >> \/ projectName = << >>

\* The checkout is as the process found it.
WorkspaceAsFound ==
  /\ branch = startBranch
  /\ changes = startChanges
  /\ stash = startStash

\* C15: a run that ends on a missing flag name or project name leaves the
\* checkout as it found it: no stash pushed, same branch, same changes.
C15_NoSideEffectOnMissingInput ==
  EndedOnMissingInput => WorkspaceAsFound

FatalSteps ==
  {"fetch", "checkout master", "pull", "checkout -b", "commit", "push", "pr create"}

\* Every step through pull-request creation and the restore succeeded.
AllStepsSucceeded ==
  /\ FatalSteps \subseteq ran
  /\ ShouldCheckoutOriginal => "checkout original" \in ran
  /\ stashCreated => "stash pop" \in ran

\* C16: the process ends with code 0 when every step through pull-request
\* creation and restoration succeeded, and with another code when, after the
\* confirmation, a fatal step did not complete.
C16_ExitCodes ==
  Exited
    => /\ AllStepsSucceeded => exitCode = 0
       /\ ("confirm" \in ran /\ ~(FatalSteps \subseteq ran)) => exitCode # 0

\* A run ended by a failed push.
C16_Witness ==
  /\ Exited
  /\ exitCode = 1
  /\ "commit" \in ran
  /\ "push" \notin ran
  /\ pc = "exited"
  /\ restores = 0
  /\ stashCreated

\* C18: when the restore code was entered and the checkout of the original
\* branch did not succeed, the pop of the stash of capture was still started.
C18_PopAttemptedAfterFailedCheckout ==
  (Exited /\ restores = 1 /\ ShouldCheckoutOriginal /\ "checkout original" \notin ran
     /\ stashCreated)
    => "try stash pop" \in ran

\* The run ended because the operator declined a prompt.
Declined == Exited /\ Captured /\ exitCode = 0 /\ "confirm" \notin ran

\* C20: a run the operator declined leaves the checkout as it found it.
C20_DeclineLeavesWorkspace ==
  Declined => WorkspaceAsFound

\* ------------------------------------------------------------ properties: bulk, continued

\* C14: in a remove run a step changes a values.yaml only by deleting the
\* lines declaring the flag; a file without such a line stays as it is.
C14_RemoveDeletesFlagLine ==
  [][operation = S_remove
       => \A q \in DOMAIN files :
            \/ files'[q] = files[q]
            \/ /\ DeclaresKey(files[q], bulkFeatureFlagName)
               /\ ~DeclaresKey(files'[q], bulkFeatureFlagName)
               /\ Len(files'[q]) < Len(files[q])]_vars

\* The argument list passes the checks the usage text states.
ArgumentsAccepted ==
  /\ Len(args) >= 4
  /\ \A k \in 1..3 : args[k] # << >>
  /\ args[1] = S_add \/ args[1] = S_remove
  /\ args[3] = S_prod \/ args[3] = S_nonprod

\* C17: the bulk process ends with a non-zero code only when the arguments
\* are refused; with accepted arguments it ends only after the summary, with
\* code 0, whatever its subprocesses did.
C17_BulkExitCode ==
  /\ bulkExitCode \in {-1, 0, 1}
  /\ bulkExitCode = 1 => ~ArgumentsAccepted
  /\ (ArgumentsAccepted /\ bulkExitCode # -1)
       => (bulkExitCode = 0 /\ bpc = "done" /\ Logged("summary") # {})
  /\ (~ArgumentsAccepted /\ bpc # "validate") => (bulkExitCode = 1 /\ procs = << >>)

\* Three projects, no subprocess succeeded, and the bulk process ended with code 0.
C17_Witness ==
  /\ bulkExitCode = 0
  /\ Len(procs) = 3
  /\ procs[1].state = "closed" /\ procs[1].code = 1
  /\ procs[2].state = "failed"
  /\ procs[3].state = "closed" /\ procs[3].code = 1
  /\ operation = S_remove

\* ------------------------------------------------------------ properties: the whole workflow

\* The variables of the single process are those of the subprocess whose
\* close was logged last.
LastChildClosed ==
  /\ procs # << >>
  /\ procs[Len(procs)].state = "closed"
  /\ console # << >>
  /\ console[Len(console)].kind \in {"success", "failed"}

\* C21: the process ends with code 0 only when `gh pr create` completed in
\* that run, and a 'Successfully processed' line is logged only for a
\* subprocess in which it completed.
C21_ExitZeroOnlyAfterPullRequest ==
  /\ (Exited /\ exitCode = 0) => "pr create" \in ran
  /\ (LastChildClosed /\ console[Len(console)].kind = "success")
       => "pr create" \in ran

\* C22: every writeFileSync and every mkdirSync of Step 7 happened with the
\* branch created in this run checked out, which is neither master nor the
\* branch the run started on.
C22_WritesOnTopicBranch ==
  \A w \in writes \cup mkdirs :
    /\ w.branch = branchName
    /\ "checkout -b" \in ran
    /\ w.branch # S_master
    /\ w.branch # startBranch

\* A run started on another branch than master that created a directory and
\* wrote a values.yaml.
C22_Witness ==
  /\ writes # {}
  /\ mkdirs # {}
  /\ startBranch # S_master
  /\ branch = branchName

====
